---- MODULE Spec2Model ----
(***************************************************************************)
(* Model of the semantic FAQ assistant's answer pipeline                   *)
(* (app/api/endpoints.py ask_question and the services it calls).          *)
(*                                                                         *)
(* Text is a sequence of one-character strings, so that strip(), upper()   *)
(* and the substring test are computed rather than assumed.  A similarity  *)
(* is a fixed-point number with five decimals (Scale = 1.0); NaN is a      *)
(* value outside the range.  An embedding is a two-dimensional integer     *)
(* vector with an integer norm, so that the cosine is a rational number    *)
(* the model computes exactly before it truncates to the fixed point.      *)
(***************************************************************************)
EXTENDS Integers, Sequences, FiniteSets, TLC

VARIABLES
    faqs,             \* the faqs table, in insertion (id) order
    threshold,        \* settings.similarity_threshold
    raw,              \* request.user_question of each request
    pc,               \* position of each ask_question execution
    user_question,    \* local user_question (stripped)
    completion,       \* result.content of the classification call
    classify_failed,  \* the classification call raised
    route,            \* (route_type, should_continue) of route_question
    attempt,          \* tenacity attempt_number of the running retry loop
    last_exception,   \* exception of the latest failed attempt of that loop
    slept,            \* waits slept by the retry loops of this request
    query_embedding,  \* local query_embedding of search_similar_faq
    found,            \* (faq, similarity_score, is_above_threshold)
    generated,        \* text returned by get_openai_answer
    response,         \* what ask_question returned or raised
    log,              \* the outbound calls made, in order
    collection_arg,   \* collection_name argument of a direct find_best_match call
    app,              \* the FastAPI application: starting, serving or failed
    embedding_model,  \* settings.embedding_model
    atttypmod,        \* type modifier of the persisted faqs.embedding column
    upd,              \* the run of scripts/update_embeddings.py, if any
    load,             \* the run of seed_database.py or add_collection.py, if any
    queue,            \* the Celery broker: generate_embedding_async tasks waiting
    worker,           \* the task the Celery worker is executing, if any
    results           \* what the executed tasks returned, in order

vars == <<faqs, threshold, raw, pc, user_question, completion,
          classify_failed, route, attempt, last_exception, slept,
          query_embedding, found, generated, response, log, collection_arg,
          app, embedding_model, atttypmod, upd, load, queue, worker, results>>

(***************************************************************************)
(* Bounds and input sets                                                   *)
(***************************************************************************)
MaxCorpus == 2

Scale == 10 ^ 5
NaN == 2 * Scale + 1

NULL == <<>>

Max(a, b) == IF a >= b THEN a ELSE b
Min(a, b) == IF a <= b THEN a ELSE b

\* app/core/constants.py
RETRY_MAX_ATTEMPTS == 3
RETRY_MIN_WAIT == 2
RETRY_MAX_WAIT == 10
RETRY_MULTIPLIER == 1
DEFAULT_COLLECTION_NAME == "default"
COMPLIANCE_MESSAGE ==
    "This is not really what I was trained for, therefore I cannot answer. Try again."

\* app/core/config.py: similarity_threshold: float = 0.85
DefaultThreshold == 85 * (Scale \div 100)
Thresholds == {0, DefaultThreshold, 96923, 99550}

\* items in the JSON file a loader script reads
MaxItems == 2

\* attempt numbers over which the backoff schedule is evaluated
MaxAttemptNumber == 6

Requests == {"r1"}

RawQuestions ==
    { <<" ">>, <<" ", "\t">>, <<" ", "a", " ", "b", "\n">> }

StoredVecs == { <<5, 12>>, <<5, 0>>, <<0, 0>> }
QueryVecs == { <<3, 4>>, <<8, 15>> }
Collections == { DEFAULT_COLLECTION_NAME, "hr" }
Errors == { "APIConnectionError", "RateLimitError" }
DbErrors == { "OperationalError" }
GeneratedTexts == { "generated answer 1", "generated answer 2" }

FaqQuestions == << "How do I reset my password?", "How do I change my email?",
                   "How do I delete my account?", "How do I enable 2FA?" >>
FaqAnswers == << "Use the reset link.", "Open the profile page.",
                 "Contact support.", "Open the security settings." >>

(***************************************************************************)
(* Text: str.strip(), str.upper() and the `in` operator of Python          *)
(***************************************************************************)
Whitespace == { " ", "\t", "\n" }

RECURSIVE LStrip(_)
LStrip(s) ==
    IF s = <<>> THEN s
    ELSE IF Head(s) \in Whitespace THEN LStrip(Tail(s)) ELSE s

RECURSIVE RStrip(_)
RStrip(s) ==
    IF s = <<>> THEN s
    ELSE IF s[Len(s)] \in Whitespace THEN RStrip(SubSeq(s, 1, Len(s) - 1))
    ELSE s

\* variant: no trimming
Strip_identity(s) == s

Strip(s) == RStrip(LStrip(s))

LowerChars == << "a", "c", "d", "e", "f", "i", "l", "o", "p", "r", "s", "t", "y" >>
UpperChars == << "A", "C", "D", "E", "F", "I", "L", "O", "P", "R", "S", "T", "Y" >>

UpperChar(c) ==
    IF \E i \in DOMAIN LowerChars : LowerChars[i] = c
    THEN UpperChars[CHOOSE i \in DOMAIN LowerChars : LowerChars[i] = c]
    ELSE c

Upper(s) == [i \in DOMAIN s |-> UpperChar(s[i])]

Contains(text, sub) ==
    \E i \in 1..(Len(text) - Len(sub) + 1) :
        SubSeq(text, i, i + Len(sub) - 1) = sub

IT_RELATED == << "I", "T", "_", "R", "E", "L", "A", "T", "E", "D" >>
YES == << "Y", "E", "S" >>

\* completions the classification call can return
Completions ==
    { IT_RELATED,
      << " ", "i", "t", "_", "r", "e", "l", "a", "t", "e", "d", "\n" >>,
      << "O", "F", "F", "_", "T", "O", "P", "I", "C" >>,
      << "o", "f", "f", "_", "t", "o", "p", "i", "c" >>,
      << "Y", "e", "s" >>,
      << >> }

(***************************************************************************)
(* app/services/router.py                                                  *)
(***************************************************************************)
\* variant: the completion is matched without upper-casing it
IsItRelated_case_sensitive(content) ==
    LET classification == Strip(content)
    IN  Contains(classification, IT_RELATED) \/ Contains(classification, YES)

\* classify_question, lines 50-51: the verdict parsed from result.content
IsItRelated(content) ==
    LET classification == Upper(Strip(content))
    IN  Contains(classification, IT_RELATED) \/ Contains(classification, YES)

\* variant: fail closed
ClassifyOnError_closed == FALSE

\* classify_question, lines 60-63: the verdict when the call raised
ClassifyOnError == TRUE

get_compliance_response == COMPLIANCE_MESSAGE

\* variant: the off-topic route does not stop the pipeline
route_question_continue(is_it_related) ==
    IF is_it_related THEN << "it_related", TRUE >>
    ELSE << "compliance", TRUE >>

route_question(is_it_related) ==
    IF is_it_related THEN << "it_related", TRUE >>
    ELSE << "compliance", FALSE >>

(***************************************************************************)
(* app/core/decorators.py: tenacity retry(stop, wait, reraise=True)        *)
(***************************************************************************)
\* variant: one attempt more before the loop gives up
stop_after_attempt_late(attempt_number) ==
    attempt_number >= RETRY_MAX_ATTEMPTS + 1

\* stop_after_attempt(RETRY_MAX_ATTEMPTS)
stop_after_attempt(attempt_number) == attempt_number >= RETRY_MAX_ATTEMPTS

\* variant: the wait is not clamped to [min, max]
wait_exponential_unclamped(attempt_number) ==
    RETRY_MULTIPLIER * (2 ^ (attempt_number - 1))

\* tenacity wait_exponential(multiplier, min, max).__call__
wait_exponential(attempt_number) ==
    LET result == RETRY_MULTIPLIER * (2 ^ (attempt_number - 1))
    IN  Max(Max(0, RETRY_MIN_WAIT), Min(result, RETRY_MAX_WAIT))

\* variant: tenacity's default, reraise=False
Reraise_RetryError(exc) == "RetryError"

\* reraise=True: the exception of the last attempt, not a RetryError
Reraise(exc) == exc

(***************************************************************************)
(* app/services/similarity.py                                              *)
(***************************************************************************)
Dot(a, b) == a[1] * b[1] + a[2] * b[2]

Norm(a) == CHOOSE n \in 0..(a[1] + a[2]) : n * n = Dot(a, a)

\* pgvector cosine_distance: 1 - a.b / (|a| |b|), NaN for a zero vector
cosine_distance(a, b) ==
    IF Norm(a) * Norm(b) = 0 THEN NaN
    ELSE Scale - ((Dot(a, b) * Scale) \div (Norm(a) * Norm(b)))

\* line 40: 1 - FAQ.embedding.cosine_distance(query_embedding)
Similarity(embedding, q) ==
    IF cosine_distance(embedding, q) = NaN THEN NaN
    ELSE Scale - cosine_distance(embedding, q)

\* float comparison: false when either side is NaN
FloatGeq(a, b) == a # NaN /\ b # NaN /\ a >= b

\* variant: the collection filter is not applied
search_similar_faq_unfiltered(db, q, collection_name) ==
    LET eligible == { i \in DOMAIN db : db[i].embedding # NULL }
        sim(i) == Similarity(db[i].embedding, q)
    IN  IF eligible = {}
        THEN { [faq |-> 0, similarity_score |-> 0] }
        ELSE { [faq |-> i, similarity_score |-> sim(i)] :
                 i \in { j \in eligible :
                           \A k \in eligible : sim(j) >= sim(k) } }

\* search_similar_faq, lines 38-64: the rows the query can return as first.
\* collection_name "" stands for None (both are falsy at line 46).
\* PostgreSQL sorts NaN above every number, and the order of equal rows is
\* not determined by the query.
search_similar_faq(db, q, collection_name) ==
    LET eligible ==
            { i \in DOMAIN db :
                /\ db[i].embedding # NULL
                /\ (collection_name # "" =>
                        db[i].collection_name = collection_name) }
        sim(i) == Similarity(db[i].embedding, q)
    IN  IF eligible = {}
        THEN { [faq |-> 0, similarity_score |-> 0] }
        ELSE { [faq |-> i, similarity_score |-> sim(i)] :
                 i \in { j \in eligible :
                           \A k \in eligible : sim(j) >= sim(k) } }

\* variant: the query embedding is written to the row that was matched
CorpusAfterQuery_persisting(db, q, faq) ==
    IF faq = 0 THEN db
    ELSE [db EXCEPT ![faq] = [@ EXCEPT !.embedding = q]]

\* the faqs table after search_similar_faq: the session only runs a SELECT
\* (lines 38-51); nothing is added, changed or committed
CorpusAfterQuery(db, q, faq) == db

\* variant: exclusive boundary
IsAboveThreshold_strict(faq, similarity_score, t) ==
    faq # 0 /\ similarity_score # NaN /\ similarity_score > t

\* find_best_match, line 87: faq and similarity_score >= threshold
IsAboveThreshold(faq, similarity_score, t) ==
    faq # 0 /\ FloatGeq(similarity_score, t)

\* variant: the gate compares the score rounded for display
find_best_match_rounded(result, t) ==
    [ faq |-> result.faq,
      similarity_score |-> result.similarity_score,
      is_above_threshold |->
          IsAboveThreshold(result.faq,
                           IF result.similarity_score = NaN THEN NaN
                           ELSE 10 * ((result.similarity_score + 5) \div 10),
                           t) ]

\* find_best_match, lines 85-96
find_best_match(result, t) ==
    [ faq |-> result.faq,
      similarity_score |-> result.similarity_score,
      is_above_threshold |->
          IsAboveThreshold(result.faq, result.similarity_score, t) ]

(***************************************************************************)
(* app/api/endpoints.py: the values ask_question returns or raises         *)
(***************************************************************************)
\* variant: truncation to four decimals instead of rounding
Round4_truncate(x) == IF x = NaN THEN NaN ELSE 10 * (x \div 10)

\* round(x, 4): nearest multiple of 0.0001, ties to even; round(nan) = nan
Round4(x) ==
    IF x = NaN THEN NaN
    ELSE LET q == x \div 10
             d == x % 10
         IN  IF d < 5 THEN 10 * q
             ELSE IF d > 5 THEN 10 * (q + 1)
             ELSE IF q % 2 = 0 THEN 10 * q ELSE 10 * (q + 1)

NoResponse ==
    [ kind |-> "none", status |-> 0, source |-> "", matched_question |-> "",
      answer |-> "", similarity_score |-> <<>>, detail |-> <<>> ]

HTTPException(status_code, detail) ==
    [ kind |-> "error", status |-> status_code, source |-> "",
      matched_question |-> "", answer |-> "", similarity_score |-> <<>>,
      detail |-> detail ]

QuestionResponse(source, matched_question, answer, similarity_score) ==
    [ kind |-> "envelope", status |-> 200, source |-> source,
      matched_question |-> matched_question, answer |-> answer,
      similarity_score |-> similarity_score, detail |-> <<>> ]

\* lines 62-65
EmptyQuestionError == HTTPException(400, << "Question cannot be empty" >>)

\* variant: the handler answers instead of raising
ProcessingError_as_answer(e) == QuestionResponse("openai", "N/A", "", <<>>)

\* lines 113-118
ProcessingError(e) ==
    HTTPException(500, << "Error processing your question: ", e >>)

\* lines 74-79
ComplianceResponse ==
    QuestionResponse("compliance", "N/A", get_compliance_response, <<>>)

\* lines 93-98
LocalResponse(db, m) ==
    QuestionResponse("local", db[m.faq].question, db[m.faq].answer,
                     << Round4(m.similarity_score) >>)

\* variant: the score is reported even when no candidate was found
OpenAIResponse_always_scored(m, openai_answer) ==
    QuestionResponse("openai", "N/A", openai_answer,
                     << Round4(m.similarity_score) >>)

\* lines 106-111
OpenAIResponse(m, openai_answer) ==
    QuestionResponse("openai", "N/A", openai_answer,
                     IF m.faq # 0 THEN << Round4(m.similarity_score) >>
                     ELSE <<>>)

\* variant: the local branch is never taken
ReturnsLocal_never(m) == FALSE

\* line 89: is_above_threshold and faq
ReturnsLocal(m) == m.is_above_threshold /\ m.faq # 0

(***************************************************************************)
(* State                                                                   *)
(***************************************************************************)
FAQ(i, embedding, collection_name) ==
    [ id |-> i, question |-> FaqQuestions[i], answer |-> FaqAnswers[i],
      embedding |-> embedding, collection_name |-> collection_name ]

Corpora ==
    UNION { { [ i \in 1..n |-> FAQ(i, e[i], c[i]) ] :
                e \in [1..n -> {NULL} \cup StoredVecs],
                c \in [1..n -> Collections] } : n \in 0..MaxCorpus }

(***************************************************************************)
(* app/core/config.py and the state app/main.py leaves after startup       *)
(***************************************************************************)
EMBEDDING_DIMENSIONS ==
    ( "text-embedding-3-small" :> 1536 ) @@
    ( "text-embedding-3-large" :> 3072 ) @@
    ( "text-embedding-ada-002" :> 1536 )

\* a started service with the default model and a column of its dimension
Started ==
    /\ app = "serving"
    /\ embedding_model = "text-embedding-3-small"
    /\ atttypmod = EMBEDDING_DIMENSIONS[embedding_model]

\* no run of update_embeddings
NoRun ==
    [ pc |-> "none", dry_run |-> FALSE, force |-> FALSE, use_async |-> FALSE,
      edited |-> {}, faqs_to_update |-> <<>>, idx |-> 0, session |-> <<>>,
      task_ids |-> <<>>, updated_count |-> 0 ]

\* no loader run
NoLoad ==
    [ script |-> "none", pc |-> "none", force |-> FALSE, use_async |-> FALSE,
      dry_run |-> FALSE, collection_name |-> "", collection_exists |-> FALSE,
      collection_created |-> FALSE, response |-> "", n_items |-> 0,
      idx |-> 0, pending |-> <<>>, before |-> <<>> ]

\* no worker task in hand
Idle == [ busy |-> FALSE, question_id |-> 0, embedding |-> NULL ]

\* no loader runs and the broker is empty
NotLoading ==
    /\ load = NoLoad
    /\ queue = <<>>
    /\ worker = Idle
    /\ results = <<>>

NoMatch == [ faq |-> 0, similarity_score |-> 0, is_above_threshold |-> FALSE ]

Init ==
    /\ faqs \in Corpora
    /\ threshold \in Thresholds
    /\ raw \in [Requests -> RawQuestions]
    /\ pc = [r \in Requests |-> "start"]
    /\ user_question = [r \in Requests |-> <<>>]
    /\ completion = [r \in Requests |-> <<>>]
    /\ classify_failed = [r \in Requests |-> FALSE]
    /\ route = [r \in Requests |-> << "", FALSE >>]
    /\ attempt = [r \in Requests |-> 0]
    /\ last_exception = [r \in Requests |-> ""]
    /\ slept = [r \in Requests |-> <<>>]
    /\ query_embedding = [r \in Requests |-> NULL]
    /\ found = [r \in Requests |-> NoMatch]
    /\ generated = [r \in Requests |-> ""]
    /\ response = [r \in Requests |-> NoResponse]
    /\ log = [r \in Requests |-> <<>>]
    /\ collection_arg = [r \in Requests |-> ""]
    /\ Started
    /\ upd = NoRun
    /\ NotLoading

\* what ask_question reads and never writes, apart from the faqs table
env ==
    << threshold, raw, collection_arg, app, embedding_model, atttypmod, upd,
       load, queue, worker, results >>

config == << faqs, env >>

\* variant: the record of calls is one list shared by all requests
Called_shared(r, call, ok, val) ==
    log' = [x \in DOMAIN log |->
               Append(log[x], [call |-> call, ok |-> ok, val |-> val])]

\* one outbound call: which collaborator, whether it returned, and the value
\* it returned
Called(r, call, ok, val) ==
    log' = [log EXCEPT ![r] = Append(@, [call |-> call, ok |-> ok, val |-> val])]

(***************************************************************************)
(* ask_question, one action per step between two outbound calls            *)
(***************************************************************************)
\* lines 59-65
Validate(r) ==
    /\ app = "serving"
    /\ pc[r] = "start"
    /\ user_question' = [user_question EXCEPT ![r] = Strip(raw[r])]
    /\ IF user_question'[r] = <<>>
       THEN /\ response' = [response EXCEPT ![r] = EmptyQuestionError]
            /\ pc' = [pc EXCEPT ![r] = "done"]
       ELSE /\ pc' = [pc EXCEPT ![r] = "classify"]
            /\ UNCHANGED response
    /\ UNCHANGED << config, completion, classify_failed, route, attempt,
                    last_exception, slept, query_embedding, found, generated, log >>

\* router.py line 49: classification_chain.invoke returns
ClassifyReturns(r) ==
    /\ pc[r] = "classify"
    /\ \E c \in Completions :
           /\ completion' = [completion EXCEPT ![r] = << c >>]
           /\ Called(r, "classify", TRUE, <<>>)
    /\ pc' = [pc EXCEPT ![r] = "route"]
    /\ UNCHANGED << config, user_question, classify_failed, route, attempt,
                    last_exception, slept, query_embedding, found, generated, response >>

\* router.py line 49: classification_chain.invoke raises
ClassifyRaises(r) ==
    /\ pc[r] = "classify"
    /\ classify_failed' = [classify_failed EXCEPT ![r] = TRUE]
    /\ Called(r, "classify", FALSE, <<>>)
    /\ pc' = [pc EXCEPT ![r] = "route"]
    /\ UNCHANGED << config, user_question, completion, route, attempt,
                    last_exception, slept, query_embedding, found, generated, response >>

\* router.py lines 50-63 and 90-97, endpoints.py lines 69-79
Route(r) ==
    /\ pc[r] = "route"
    /\ LET is_it_related ==
               IF classify_failed[r] THEN ClassifyOnError
               ELSE IsItRelated(completion[r][1])
           routed == route_question(is_it_related)
       IN  /\ route' = [route EXCEPT ![r] = routed]
           /\ IF ~routed[2]
              THEN /\ response' = [response EXCEPT ![r] = ComplianceResponse]
                   /\ pc' = [pc EXCEPT ![r] = "done"]
                   /\ UNCHANGED << attempt, slept >>
              ELSE /\ pc' = [pc EXCEPT ![r] = "embed"]
                   /\ attempt' = [attempt EXCEPT ![r] = 1]
                   /\ slept' = [slept EXCEPT ![r] = <<>>]
                   /\ UNCHANGED response
    /\ UNCHANGED << config, user_question, completion, classify_failed,
                    last_exception, query_embedding, found, generated, log >>

\* embeddings.py lines 29-35: client.embeddings.create returns
EmbedReturns(r) ==
    /\ pc[r] = "embed"
    /\ \E v \in QueryVecs :
           /\ query_embedding' = [query_embedding EXCEPT ![r] = v]
           /\ Called(r, "embed", TRUE, v)
    /\ last_exception' = [last_exception EXCEPT ![r] = ""]
    /\ completion' = [completion EXCEPT ![r] = <<>>]
    /\ pc' = [pc EXCEPT ![r] = "search"]
    /\ UNCHANGED << config, user_question, classify_failed, route,
                    attempt, slept, found, generated, response >>

\* embeddings.py lines 13 and 29: the call raises inside the retry loop;
\* the exception that leaves the loop reaches endpoints.py lines 113-118
EmbedRaises(r) ==
    /\ pc[r] = "embed"
    /\ \E e \in Errors :
        /\ Called(r, "embed", FALSE, <<>>)
        /\ last_exception' = [last_exception EXCEPT ![r] = e]
        /\ IF stop_after_attempt(attempt[r])
           THEN /\ response' =
                       [response EXCEPT ![r] = ProcessingError(Reraise(e))]
                /\ pc' = [pc EXCEPT ![r] = "done"]
                /\ UNCHANGED << attempt, slept >>
           ELSE /\ slept' = [slept EXCEPT
                                ![r] = Append(@, wait_exponential(attempt[r]))]
                /\ attempt' = [attempt EXCEPT ![r] = @ + 1]
                /\ UNCHANGED << pc, response >>
    /\ completion' = [completion EXCEPT ![r] = <<>>]
    /\ UNCHANGED << config, user_question, classify_failed, route,
                    query_embedding, found, generated >>

\* similarity.py lines 38-64 and 85-96, endpoints.py lines 82-98
Search(r) ==
    /\ pc[r] = "search"
    /\ \E result \in search_similar_faq(faqs, query_embedding[r], "") :
           LET m == find_best_match(result, threshold)
           IN  /\ Called(r, "query", TRUE, << result.faq >>)
               /\ faqs' = CorpusAfterQuery(faqs, query_embedding[r],
                                           result.faq)
               /\ found' = [found EXCEPT ![r] = m]
               /\ IF ReturnsLocal(m)
                  THEN /\ response' =
                              [response EXCEPT ![r] = LocalResponse(faqs, m)]
                       /\ pc' = [pc EXCEPT ![r] = "done"]
                       /\ UNCHANGED << attempt, slept >>
                  ELSE /\ pc' = [pc EXCEPT ![r] = "generate"]
                       /\ attempt' = [attempt EXCEPT ![r] = 1]
                       /\ slept' = [slept EXCEPT ![r] = <<>>]
                       /\ UNCHANGED response
    /\ UNCHANGED << env, user_question, completion, classify_failed, route,
                    last_exception, query_embedding, generated >>

\* similarity.py line 51: the database query raises
SearchRaises(r) ==
    /\ pc[r] = "search"
    /\ \E e \in DbErrors :
           /\ Called(r, "query", FALSE, <<>>)
           /\ last_exception' = [last_exception EXCEPT ![r] = e]
           /\ response' = [response EXCEPT ![r] = ProcessingError(e)]
    /\ pc' = [pc EXCEPT ![r] = "done"]
    /\ UNCHANGED << config, user_question, completion, classify_failed, route,
                    attempt, slept, query_embedding, found, generated >>

\* endpoints.py lines 104-111: get_openai_answer returns
GenerateReturns(r) ==
    /\ pc[r] = "generate"
    /\ \E text \in GeneratedTexts :
           /\ Called(r, "generate", TRUE, << text >>)
           /\ generated' = [generated EXCEPT ![r] = text]
           /\ response' =
                  [response EXCEPT ![r] = OpenAIResponse(found[r], text)]
    /\ last_exception' = [last_exception EXCEPT ![r] = ""]
    /\ pc' = [pc EXCEPT ![r] = "done"]
    /\ UNCHANGED << config, user_question, completion, classify_failed, route,
                    attempt, slept, query_embedding, found >>

\* get_openai_answer raises inside its retry loop
GenerateRaises(r) ==
    /\ pc[r] = "generate"
    /\ \E e \in Errors :
        /\ Called(r, "generate", FALSE, <<>>)
        /\ last_exception' = [last_exception EXCEPT ![r] = e]
        /\ IF stop_after_attempt(attempt[r])
           THEN /\ response' =
                       [response EXCEPT ![r] = ProcessingError(Reraise(e))]
                /\ pc' = [pc EXCEPT ![r] = "done"]
                /\ UNCHANGED << attempt, slept >>
           ELSE /\ slept' = [slept EXCEPT
                                ![r] = Append(@, wait_exponential(attempt[r]))]
                /\ attempt' = [attempt EXCEPT ![r] = @ + 1]
                /\ UNCHANGED << pc, response >>
    /\ UNCHANGED << config, user_question, completion, classify_failed, route,
                    query_embedding, found, generated >>

Next ==
    \/ \E r \in DOMAIN pc : Validate(r)
    \/ \E r \in DOMAIN pc : ClassifyReturns(r)
    \/ \E r \in DOMAIN pc : ClassifyRaises(r)
    \/ \E r \in DOMAIN pc : Route(r)
    \/ \E r \in DOMAIN pc : EmbedReturns(r)
    \/ \E r \in DOMAIN pc : EmbedRaises(r)
    \/ \E r \in DOMAIN pc : Search(r)
    \/ \E r \in DOMAIN pc : SearchRaises(r)
    \/ \E r \in DOMAIN pc : GenerateReturns(r)
    \/ \E r \in DOMAIN pc : GenerateRaises(r)

Spec == Init /\ [][Next]_vars

(***************************************************************************)
(* one ask_question execution whose remote calls all return or raise       *)
(***************************************************************************)
InitLive ==
    /\ faqs \in { c \in Corpora : Len(c) <= 1 }
    /\ threshold \in Thresholds
    /\ raw \in [Requests -> RawQuestions]
    /\ pc = [r \in Requests |-> "start"]
    /\ user_question = [r \in Requests |-> <<>>]
    /\ completion = [r \in Requests |-> <<>>]
    /\ classify_failed = [r \in Requests |-> FALSE]
    /\ route = [r \in Requests |-> << "", FALSE >>]
    /\ attempt = [r \in Requests |-> 0]
    /\ last_exception = [r \in Requests |-> ""]
    /\ slept = [r \in Requests |-> <<>>]
    /\ query_embedding = [r \in Requests |-> NULL]
    /\ found = [r \in Requests |-> NoMatch]
    /\ generated = [r \in Requests |-> ""]
    /\ response = [r \in Requests |-> NoResponse]
    /\ log = [r \in Requests |-> <<>>]
    /\ collection_arg = [r \in Requests |-> ""]
    /\ Started
    /\ upd = NoRun
    /\ NotLoading

\* every call that was made returns or raises, and the handler goes on
SpecLive == InitLive /\ [][Next]_vars /\ WF_vars(Next)

(***************************************************************************)
(* several ask_question executions in flight over one corpus               *)
(***************************************************************************)
ConcRequests == { "r1", "r2" }

\* corpora of one entry: enough for a hit, a miss and an empty search
ConcCorpora ==
    { c \in Corpora : Len(c) = 1 /\ c[1].collection_name = DEFAULT_COLLECTION_NAME }

InitConc ==
    /\ faqs \in ConcCorpora
    /\ threshold = DefaultThreshold
    /\ raw \in [ConcRequests -> RawQuestions]
    /\ pc = [r \in ConcRequests |-> "start"]
    /\ user_question = [r \in ConcRequests |-> <<>>]
    /\ completion = [r \in ConcRequests |-> <<>>]
    /\ classify_failed = [r \in ConcRequests |-> FALSE]
    /\ route = [r \in ConcRequests |-> << "", FALSE >>]
    /\ attempt = [r \in ConcRequests |-> 0]
    /\ last_exception = [r \in ConcRequests |-> ""]
    /\ slept = [r \in ConcRequests |-> <<>>]
    /\ query_embedding = [r \in ConcRequests |-> NULL]
    /\ found = [r \in ConcRequests |-> NoMatch]
    /\ generated = [r \in ConcRequests |-> ""]
    /\ response = [r \in ConcRequests |-> NoResponse]
    /\ log = [r \in ConcRequests |-> <<>>]
    /\ collection_arg = [r \in ConcRequests |-> ""]
    /\ Started
    /\ upd = NoRun
    /\ NotLoading

SpecConc == InitConc /\ [][Next]_vars

(***************************************************************************)
(* app/main.py: lifespan, then the requests the started service handles    *)
(***************************************************************************)
\* the supported models and one that EMBEDDING_DIMENSIONS does not list
EmbeddingModels == DOMAIN EMBEDDING_DIMENSIONS \cup { "text-embedding-004" }

\* no embedding column
NoColumn == 0

\* pg_attribute.atttypmod of faqs.embedding: the declared dimension, -1 for
\* a vector column declared without one
Typmods == { NoColumn, -1, 1536, 3072 }

\* lines 50-65: what the check decides on the row the schema query returned
validate_dimension(row, model) ==
    IF row # <<>> /\ row[1] > 0
    THEN IF row[1] # EMBEDDING_DIMENSIONS[model] THEN "failed" ELSE "serving"
    ELSE "serving"

\* lines 42-48: the rows the schema query can return, << "raises" >> when it
\* raises (no connection, or no faqs table for the regclass cast)
SchemaQuery ==
    IF atttypmod = NoColumn THEN { << "raises" >>, << "row", <<>> >> }
    ELSE { << "raises" >>, << "row", << atttypmod >> >> }

InitStartup ==
    /\ faqs \in ConcCorpora
    /\ threshold = DefaultThreshold
    /\ raw \in [Requests -> RawQuestions]
    /\ pc = [r \in Requests |-> "start"]
    /\ user_question = [r \in Requests |-> <<>>]
    /\ completion = [r \in Requests |-> <<>>]
    /\ classify_failed = [r \in Requests |-> FALSE]
    /\ route = [r \in Requests |-> << "", FALSE >>]
    /\ attempt = [r \in Requests |-> 0]
    /\ last_exception = [r \in Requests |-> ""]
    /\ slept = [r \in Requests |-> <<>>]
    /\ query_embedding = [r \in Requests |-> NULL]
    /\ found = [r \in Requests |-> NoMatch]
    /\ generated = [r \in Requests |-> ""]
    /\ response = [r \in Requests |-> NoResponse]
    /\ log = [r \in Requests |-> <<>>]
    /\ collection_arg = [r \in Requests |-> ""]
    /\ app = "starting"
    /\ embedding_model \in EmbeddingModels
    /\ atttypmod \in Typmods
    /\ upd = NoRun
    /\ NotLoading

\* main.py lines 19-77: settings.embedding_dimension raises for an
\* unsupported model (line 27); a ValueError of the check is re-raised
\* (lines 67-69), any other exception is logged as a warning (lines 70-72)
lifespan ==
    /\ app = "starting"
    /\ IF embedding_model \notin DOMAIN EMBEDDING_DIMENSIONS
       THEN app' = "failed"
       ELSE \E result \in SchemaQuery :
               app' = IF result[1] = "raises" THEN "serving"
                      ELSE validate_dimension(result[2], embedding_model)
    /\ UNCHANGED << faqs, threshold, raw, collection_arg, embedding_model,
                    atttypmod, upd, load, queue, worker, results, pc,
                    user_question, completion,
                    classify_failed, route, attempt, last_exception, slept, query_embedding,
                    found, generated, response, log >>

NextStartup ==
    \/ lifespan
    \/ Next

SpecStartup == InitStartup /\ [][NextStartup]_vars

(***************************************************************************)
(* scripts/update_embeddings.py                                            *)
(***************************************************************************)
\* variant: the force flag is not consulted
needs_update_missing_only(faq, force) == faq.embedding = NULL

\* lines 51-64: the decision taken for one FAQ
needs_update(faq, force) ==
    IF faq.embedding = NULL THEN TRUE
    ELSE IF force THEN TRUE
    ELSE FALSE

\* lines 48-67: the ids of the FAQs appended to faqs_to_update, in order
select_faqs_to_update(all_faqs, force) ==
    SelectSeq([i \in 1..Len(all_faqs) |-> i],
              LAMBDA i : needs_update(all_faqs[i], force))

\* no request is in flight while the script runs
InitUpdate ==
    /\ faqs \in Corpora
    /\ threshold = DefaultThreshold
    /\ raw = [r \in Requests |-> << " " >>]
    /\ pc = [r \in Requests |-> "start"]
    /\ user_question = [r \in Requests |-> <<>>]
    /\ completion = [r \in Requests |-> <<>>]
    /\ classify_failed = [r \in Requests |-> FALSE]
    /\ route = [r \in Requests |-> << "", FALSE >>]
    /\ attempt = [r \in Requests |-> 0]
    /\ last_exception = [r \in Requests |-> ""]
    /\ slept = [r \in Requests |-> <<>>]
    /\ query_embedding = [r \in Requests |-> NULL]
    /\ found = [r \in Requests |-> NoMatch]
    /\ generated = [r \in Requests |-> ""]
    /\ response = [r \in Requests |-> NoResponse]
    /\ log = [r \in Requests |-> <<>>]
    /\ collection_arg = [r \in Requests |-> ""]
    /\ Started
    /\ \E dry_run, force, use_async \in BOOLEAN :
       \E edited \in SUBSET (DOMAIN faqs) :
           upd = [ NoRun EXCEPT !.pc = "start", !.dry_run = dry_run,
                                !.force = force, !.use_async = use_async,
                                !.edited = edited ]
    /\ NotLoading

\* everything but the faqs table and the run of the script
rest ==
    << threshold, raw, collection_arg, app, embedding_model, atttypmod, load,
       queue, worker, results, pc,
       user_question, completion, classify_failed, route, attempt,
       last_exception, slept, query_embedding, found, generated, response,
       log >>

\* lines 37-81: query all FAQs, select, and return early when there is
\* nothing to do or on a dry run
update_embeddings ==
    /\ upd.pc = "start"
    /\ LET all_faqs == faqs
           faqs_to_update == select_faqs_to_update(all_faqs, upd.force)
       IN  upd' = [ upd EXCEPT
                      !.faqs_to_update =
                          IF all_faqs = <<>> THEN <<>> ELSE faqs_to_update,
                      !.session = all_faqs,
                      !.idx = 1,
                      !.pc = IF all_faqs = <<>> THEN "empty"
                             ELSE IF faqs_to_update = <<>> THEN "up_to_date"
                             ELSE IF upd.dry_run THEN "dry_run"
                             ELSE IF upd.use_async THEN "async"
                             ELSE "sync" ]
    /\ UNCHANGED << faqs, rest >>

\* line 40 raises: lines 116-119 roll back and re-raise
UpdateQueryRaises ==
    /\ upd.pc = "start"
    /\ upd' = [ upd EXCEPT !.pc = "raised" ]
    /\ UNCHANGED << faqs, rest >>

\* lines 100-106: generate_embedding returns for the next FAQ
UpdateEmbedReturns ==
    /\ upd.pc = "sync"
    /\ upd.idx <= Len(upd.faqs_to_update)
    /\ \E embedding \in QueryVecs :
           upd' = [ upd EXCEPT
                      !.session[upd.faqs_to_update[upd.idx]].embedding =
                          embedding,
                      !.updated_count = @ + 1,
                      !.idx = @ + 1 ]
    /\ UNCHANGED << faqs, rest >>

\* lines 107-109: generate_embedding raises, the FAQ is skipped
UpdateEmbedRaises ==
    /\ upd.pc = "sync"
    /\ upd.idx <= Len(upd.faqs_to_update)
    /\ upd' = [ upd EXCEPT !.idx = @ + 1 ]
    /\ UNCHANGED << faqs, rest >>

\* lines 111-113: db.commit() after the loop
UpdateCommit ==
    /\ upd.pc = "sync"
    /\ upd.idx > Len(upd.faqs_to_update)
    /\ faqs' = upd.session
    /\ upd' = [ upd EXCEPT !.pc = "committed" ]
    /\ UNCHANGED rest

\* line 112 raises: lines 116-119 roll back and re-raise
UpdateCommitRaises ==
    /\ upd.pc = "sync"
    /\ upd.idx > Len(upd.faqs_to_update)
    /\ upd' = [ upd EXCEPT !.pc = "raised", !.session = faqs ]
    /\ UNCHANGED << faqs, rest >>

\* lines 88-92: one task queued for the next FAQ
UpdateQueue ==
    /\ upd.pc = "async"
    /\ upd.idx <= Len(upd.faqs_to_update)
    /\ LET faq == upd.session[upd.faqs_to_update[upd.idx]]
       IN  upd' = [ upd EXCEPT
                      !.task_ids = Append(@, << faq.id, faq.question >>),
                      !.idx = @ + 1 ]
    /\ UNCHANGED << faqs, rest >>

\* line 90 raises: lines 116-119 roll back and re-raise
UpdateQueueRaises ==
    /\ upd.pc = "async"
    /\ upd.idx <= Len(upd.faqs_to_update)
    /\ upd' = [ upd EXCEPT !.pc = "raised" ]
    /\ UNCHANGED << faqs, rest >>

\* lines 94-95: every task is queued
UpdateQueued ==
    /\ upd.pc = "async"
    /\ upd.idx > Len(upd.faqs_to_update)
    /\ upd' = [ upd EXCEPT !.pc = "queued" ]
    /\ UNCHANGED << faqs, rest >>

NextUpdate ==
    \/ update_embeddings
    \/ UpdateQueryRaises
    \/ UpdateEmbedReturns
    \/ UpdateEmbedRaises
    \/ UpdateCommit
    \/ UpdateCommitRaises
    \/ UpdateQueue
    \/ UpdateQueueRaises
    \/ UpdateQueued

SpecUpdate == InitUpdate /\ [][NextUpdate]_vars

(***************************************************************************)
(* scripts/seed_database.py, scripts/add_collection.py and the Celery task *)
(***************************************************************************)
\* the tables the loaders start from
LoadCorpora == { c \in Corpora : Len(c) <= 1 }

\* what the operator types at the prompt
PromptResponses == { "yes", "no" }

\* everything but the faqs table, the loader, the broker and the worker
others ==
    << threshold, raw, collection_arg, app, embedding_model, atttypmod, upd,
       pc, user_question, completion, classify_failed, route, attempt,
       last_exception, slept, query_embedding, found, generated, response,
       log >>

InitLoad ==
    /\ faqs \in LoadCorpora
    /\ threshold = DefaultThreshold
    /\ raw = [r \in Requests |-> << " " >>]
    /\ pc = [r \in Requests |-> "start"]
    /\ user_question = [r \in Requests |-> <<>>]
    /\ completion = [r \in Requests |-> <<>>]
    /\ classify_failed = [r \in Requests |-> FALSE]
    /\ route = [r \in Requests |-> << "", FALSE >>]
    /\ attempt = [r \in Requests |-> 0]
    /\ last_exception = [r \in Requests |-> ""]
    /\ slept = [r \in Requests |-> <<>>]
    /\ query_embedding = [r \in Requests |-> NULL]
    /\ found = [r \in Requests |-> NoMatch]
    /\ generated = [r \in Requests |-> ""]
    /\ response = [r \in Requests |-> NoResponse]
    /\ log = [r \in Requests |-> <<>>]
    /\ collection_arg = [r \in Requests |-> ""]
    /\ Started
    /\ upd = NoRun
    /\ queue = <<>>
    /\ worker = Idle
    /\ results = <<>>
    /\ \E use_async \in BOOLEAN, n \in 0..MaxItems :
          \/ \E force \in BOOLEAN :
                load = [ NoLoad EXCEPT
                           !.script = "seed", !.pc = "start",
                           !.force = force, !.use_async = use_async,
                           !.collection_name = DEFAULT_COLLECTION_NAME,
                           !.n_items = n, !.before = faqs ]
          \/ \E dry_run, collection_exists \in BOOLEAN :
                load = [ NoLoad EXCEPT
                           !.script = "add", !.pc = "start",
                           !.dry_run = dry_run, !.use_async = use_async,
                           !.collection_name = "hr",
                           !.collection_exists = collection_exists,
                           !.n_items = n, !.before = faqs ]

\* the position the insert loop starts from: seed_database.py line 91,
\* add_collection.py line 109
InsertLoop == IF load.use_async THEN "async" ELSE "sync"

\* seed_database.py lines 70-91: count, prompt, delete and commit
seed_faqs ==
    /\ load.script = "seed"
    /\ load.pc = "start"
    /\ LET existing_count == Len(faqs)
       IN  IF existing_count > 0
           THEN IF ~load.force
                THEN \E answer \in PromptResponses :
                        IF answer # "yes"
                        THEN /\ load' = [ load EXCEPT !.pc = "cancelled",
                                                      !.response = answer ]
                             /\ UNCHANGED faqs
                        ELSE /\ load' = [ load EXCEPT !.pc = InsertLoop,
                                                      !.response = answer,
                                                      !.idx = 1 ]
                             /\ faqs' = <<>>
                ELSE /\ load' = [ load EXCEPT !.pc = InsertLoop, !.idx = 1 ]
                     /\ faqs' = <<>>
           ELSE /\ load' = [ load EXCEPT !.pc = InsertLoop, !.idx = 1 ]
                /\ UNCHANGED faqs
    /\ UNCHANGED << queue, worker, results, others >>

\* seed_database.py line 73, 86 or 87 raises: lines 146-149 roll back and
\* re-raise
SeedCountRaises ==
    /\ load.script = "seed"
    /\ load.pc = "start"
    /\ load' = [ load EXCEPT !.pc = "raised" ]
    /\ UNCHANGED << faqs, queue, worker, results, others >>

\* add_collection.py lines 77-109: dry run, collection lookup, prompt or
\* creation of the collection
add_collection ==
    /\ load.script = "add"
    /\ load.pc = "start"
    /\ IF load.dry_run
       THEN load' = [ load EXCEPT !.pc = "dry_run" ]
       ELSE IF load.collection_exists
            THEN \E answer \in PromptResponses :
                    load' = [ load EXCEPT
                                !.pc = IF answer # "yes" THEN "cancelled"
                                       ELSE InsertLoop,
                                !.response = answer,
                                !.idx = 1 ]
            ELSE load' = [ load EXCEPT !.pc = InsertLoop, !.idx = 1,
                                       !.collection_created = TRUE ]
    /\ UNCHANGED << faqs, queue, worker, results, others >>

\* add_collection.py line 88 or 105 raises: lines 166-169
AddLookupRaises ==
    /\ load.script = "add"
    /\ load.pc = "start"
    /\ ~load.dry_run
    /\ load' = [ load EXCEPT !.pc = "raised" ]
    /\ UNCHANGED << faqs, queue, worker, results, others >>

\* the id the database gives the next flushed or committed row
NextId == Len(faqs) + Len(load.pending) + 1

\* seed_database.py lines 95-111, add_collection.py lines 113-129: a row
\* without embedding is added and flushed, its task is queued
LoadQueue ==
    /\ load.pc = "async"
    /\ load.idx <= load.n_items
    /\ LET faq == FAQ(NextId, NULL, load.collection_name)
       IN  /\ load' = [ load EXCEPT !.pending = Append(@, faq),
                                    !.idx = @ + 1 ]
           /\ queue' = Append(queue, << faq.id, faq.question >>)
    /\ UNCHANGED << faqs, worker, results, others >>

\* flush or delay raises: the handler rolls back and re-raises
LoadQueueRaises ==
    /\ load.pc = "async"
    /\ load.idx <= load.n_items
    /\ load' = [ load EXCEPT !.pc = "raised", !.pending = <<>> ]
    /\ UNCHANGED << faqs, queue, worker, results, others >>

\* seed_database.py lines 123-137, add_collection.py lines 142-156:
\* generate_embedding returns and the row is added with its embedding
LoadEmbedReturns ==
    /\ load.pc = "sync"
    /\ load.idx <= load.n_items
    /\ \E embedding \in QueryVecs :
          load' = [ load EXCEPT
                      !.pending = Append(@, FAQ(NextId, embedding,
                                                load.collection_name)),
                      !.idx = @ + 1 ]
    /\ UNCHANGED << faqs, queue, worker, results, others >>

\* variant: the item whose embedding failed is added without embedding
LoadEmbedRaises_adds ==
    /\ load.pc = "sync"
    /\ load.idx <= load.n_items
    /\ load' = [ load EXCEPT
                   !.pending = Append(@, FAQ(NextId, NULL,
                                             load.collection_name)),
                   !.idx = @ + 1 ]
    /\ UNCHANGED << faqs, queue, worker, results, others >>

\* seed_database.py lines 125-127, add_collection.py lines 158-160:
\* generate_embedding raises and the item is skipped
LoadEmbedRaises ==
    /\ load.pc = "sync"
    /\ load.idx <= load.n_items
    /\ load' = [ load EXCEPT !.idx = @ + 1 ]
    /\ UNCHANGED << faqs, queue, worker, results, others >>

\* seed_database.py lines 113 and 140, add_collection.py lines 131 and 163
LoadCommit ==
    /\ load.pc \in { "async", "sync" }
    /\ load.idx > load.n_items
    /\ faqs' = faqs \o load.pending
    /\ load' = [ load EXCEPT !.pc = "committed", !.pending = <<>> ]
    /\ UNCHANGED << queue, worker, results, others >>

\* the commit raises: the handler rolls back and re-raises
LoadCommitRaises ==
    /\ load.pc \in { "async", "sync" }
    /\ load.idx > load.n_items
    /\ load' = [ load EXCEPT !.pc = "raised", !.pending = <<>> ]
    /\ UNCHANGED << faqs, queue, worker, results, others >>

\* what the task returns (celery_app.py lines 57, 60 and 66)
TaskResult(question_id, status, message) ==
    [ faq_id |-> question_id, status |-> status, message |-> message ]

\* variant: a task for a row that is not found reports success
NotFoundResult_success(question_id) == TaskResult(question_id, "success", "")

\* celery_app.py lines 58-60
NotFoundResult(question_id) ==
    TaskResult(question_id, "error", "FAQ not found")

\* celery_app.py line 47: the worker takes a task, generate_embedding returns
WorkerEmbedReturns ==
    /\ ~worker.busy
    /\ queue # <<>>
    /\ \E embedding \in QueryVecs :
          worker' = [ busy |-> TRUE, question_id |-> Head(queue)[1],
                      embedding |-> embedding ]
    /\ queue' = Tail(queue)
    /\ UNCHANGED << faqs, load, results, others >>

\* celery_app.py lines 47 and 64-66: generate_embedding raises
WorkerEmbedRaises ==
    /\ ~worker.busy
    /\ queue # <<>>
    /\ results' = Append(results,
                         TaskResult(Head(queue)[1], "error", "embed"))
    /\ queue' = Tail(queue)
    /\ UNCHANGED << faqs, load, worker, others >>

\* celery_app.py lines 50-62: the row is looked up among the committed rows
\* and, when found, updated and committed
WorkerUpdate ==
    /\ worker.busy
    /\ IF worker.question_id \in DOMAIN faqs
       THEN /\ faqs' = [ faqs EXCEPT
                           ![worker.question_id].embedding = worker.embedding ]
            /\ results' = Append(results,
                                 TaskResult(worker.question_id, "success", ""))
       ELSE /\ results' = Append(results, NotFoundResult(worker.question_id))
            /\ UNCHANGED faqs
    /\ worker' = Idle
    /\ UNCHANGED << load, queue, others >>

\* celery_app.py lines 50-55 raise (session, query or commit): lines 61-66
WorkerUpdateRaises ==
    /\ worker.busy
    /\ results' = Append(results,
                         TaskResult(worker.question_id, "error", "database"))
    /\ worker' = Idle
    /\ UNCHANGED << faqs, load, queue, others >>

NextLoad ==
    \/ seed_faqs
    \/ SeedCountRaises
    \/ add_collection
    \/ AddLookupRaises
    \/ LoadQueue
    \/ LoadQueueRaises
    \/ LoadEmbedReturns
    \/ LoadEmbedRaises
    \/ LoadCommit
    \/ LoadCommitRaises
    \/ WorkerEmbedReturns
    \/ WorkerEmbedRaises
    \/ WorkerUpdate
    \/ WorkerUpdateRaises

SpecLoad == InitLoad /\ [][NextLoad]_vars

(***************************************************************************)
(* find_best_match called on its own, with or without a collection_name    *)
(***************************************************************************)
InitMatch ==
    /\ faqs \in Corpora
    /\ threshold \in Thresholds
    /\ raw \in [Requests -> { r \in RawQuestions : Strip(r) # <<>> }]
    /\ pc = [r \in Requests |-> "search"]
    /\ user_question = [r \in Requests |-> Strip(raw[r])]
    /\ completion = [r \in Requests |-> <<>>]
    /\ classify_failed = [r \in Requests |-> FALSE]
    /\ route = [r \in Requests |-> << "", FALSE >>]
    /\ attempt = [r \in Requests |-> 1]
    /\ last_exception = [r \in Requests |-> ""]
    /\ slept = [r \in Requests |-> <<>>]
    /\ query_embedding \in [Requests -> QueryVecs]
    /\ found = [r \in Requests |-> NoMatch]
    /\ generated = [r \in Requests |-> ""]
    /\ response = [r \in Requests |-> NoResponse]
    /\ log = [r \in Requests |-> <<>>]
    /\ collection_arg \in [Requests -> { "" } \cup Collections]
    /\ Started
    /\ upd = NoRun
    /\ NotLoading

\* similarity.py lines 38-64 and 85-96
FindBestMatch(r) ==
    /\ pc[r] = "search"
    /\ \E result \in search_similar_faq(faqs, query_embedding[r],
                                         collection_arg[r]) :
           /\ Called(r, "query", TRUE, << result.faq >>)
           /\ faqs' = CorpusAfterQuery(faqs, query_embedding[r], result.faq)
           /\ found' = [found EXCEPT ![r] = find_best_match(result, threshold)]
    /\ pc' = [pc EXCEPT ![r] = "returned"]
    /\ UNCHANGED << env, user_question, completion, classify_failed, route,
                    attempt, last_exception, slept, query_embedding, generated,
                    response >>

NextMatch == \E r \in DOMAIN pc : FindBestMatch(r)

SpecMatch == InitMatch /\ [][NextMatch]_vars

(***************************************************************************)
(* Observations used by the properties                                     *)
(***************************************************************************)
Calls(r, call) ==
    Cardinality({ i \in DOMAIN log[r] : log[r][i].call = call })

Done(r) == pc[r] = "done"

OffTopicAnswered(r) ==
    Done(r) /\ response[r].kind = "envelope" /\ response[r].source = "compliance"

LocalAnswered(r) ==
    Done(r) /\ response[r].kind = "envelope" /\ response[r].source = "local"

GeneratedAnswered(r) ==
    Done(r) /\ response[r].kind = "envelope" /\ response[r].source = "openai"

Failed(r) == Done(r) /\ response[r].kind = "error" /\ response[r].status = 500

Rejected(r) == Done(r) /\ response[r].kind = "error" /\ response[r].status = 400

\* the gate of this request took the fall-through branch
MissTaken(r) == pc[r] = "generate" \/ Calls(r, "generate") > 0

\* the gate of this request was evaluated
Gated(r) == LocalAnswered(r) \/ MissTaken(r)

(***************************************************************************)
(* Properties                                                              *)
(***************************************************************************)

\* C1: a question routed as off-topic gets the compliance envelope (source
\* compliance, matched_question "N/A", the fixed compliance text, no
\* similarity score), and that execution makes no embed call, no corpus
\* query and no generate call.
C1_OffTopicEnvelope ==
    \A r \in DOMAIN pc :
        route[r][1] = "compliance" =>
            /\ Done(r)
            /\ response[r] =
                   [ kind |-> "envelope", status |-> 200,
                     source |-> "compliance", matched_question |-> "N/A",
                     answer |-> COMPLIANCE_MESSAGE, similarity_score |-> <<>>,
                     detail |-> <<>> ]
            /\ Calls(r, "embed") = 0
            /\ Calls(r, "query") = 0
            /\ Calls(r, "generate") = 0

C1_Witness ==
    \E r \in DOMAIN pc :
        /\ route[r][1] = "compliance"
        /\ OffTopicAnswered(r)
        /\ Calls(r, "classify") = 1

\* C2: once the gate is evaluated, the request is answered locally if and
\* only if a candidate is present and its score is >= the threshold
\* (inclusive); a present candidate below the threshold, or an absent
\* candidate whatever the score, takes the fall-through branch.
C2_ThresholdGate ==
    \A r \in DOMAIN pc :
        Gated(r) =>
            /\ LocalAnswered(r) <=>
                   /\ found[r].faq # 0
                   /\ found[r].similarity_score # NaN
                   /\ found[r].similarity_score >= threshold
            /\ LocalAnswered(r) <=> ~MissTaken(r)

\* a candidate scoring exactly the threshold answered locally
C2_Witness ==
    \E r \in DOMAIN pc :
        /\ LocalAnswered(r)
        /\ found[r].faq # 0
        /\ found[r].similarity_score = threshold

\* the candidate of this request passes the gate: present, score >= threshold
Hit(r) ==
    /\ found[r].faq # 0
    /\ found[r].similarity_score # NaN
    /\ found[r].similarity_score >= threshold

\* v is s rounded to four decimals: a multiple of 0.0001 nearest to s
RoundedTo4(v, s) ==
    IF s = NaN THEN v = NaN
    ELSE /\ v # NaN
         /\ v % 10 = 0
         /\ 2 * (v - s) <= 10
         /\ 2 * (s - v) <= 10

\* C3 as stated: when the best score s is >= threshold the envelope is local
\* with the candidate's question and answer, similarity_score equal to s
\* exactly, and no generate call.
C3_Original ==
    \A r \in DOMAIN pc :
        (Gated(r) /\ Hit(r)) =>
            /\ LocalAnswered(r)
            /\ response[r].matched_question = faqs[found[r].faq].question
            /\ response[r].answer = faqs[found[r].faq].answer
            /\ response[r].similarity_score = << found[r].similarity_score >>
            /\ Calls(r, "generate") = 0

\* C3 (amended): when the best score s is >= threshold the envelope is local
\* with the candidate's question and answer, similarity_score is s rounded
\* to four decimal places (the gate compared the unrounded s), and no
\* generate call is made.
C3_LocalEnvelope ==
    \A r \in DOMAIN pc :
        (Gated(r) /\ Hit(r)) =>
            /\ LocalAnswered(r)
            /\ response[r].status = 200
            /\ response[r].matched_question = faqs[found[r].faq].question
            /\ response[r].answer = faqs[found[r].faq].answer
            /\ Len(response[r].similarity_score) = 1
            /\ RoundedTo4(response[r].similarity_score[1],
                          found[r].similarity_score)
            /\ Calls(r, "generate") = 0

\* a local answer whose reported score differs from the compared score
C3_Witness ==
    \E r \in DOMAIN pc :
        /\ LocalAnswered(r)
        /\ Hit(r)
        /\ response[r].similarity_score # << found[r].similarity_score >>

\* C4 as stated: on a Miss the envelope is generated, matched_question none,
\* answer the generated text, similarity_score equal to match.score when a
\* candidate existed and none otherwise; on an empty corpus the matcher
\* returns (none, 0.0).
C4_Original ==
    \A r \in DOMAIN pc :
        /\ (Gated(r) /\ ~Hit(r)) => (MissTaken(r) /\ ~LocalAnswered(r))
        /\ (MissTaken(r) /\ Done(r) /\ log[r][Len(log[r])].ok) =>
              /\ GeneratedAnswered(r)
              /\ response[r].matched_question = "N/A"
              /\ response[r].answer = generated[r]
              /\ log[r][Len(log[r])].val = << response[r].answer >>
              /\ response[r].similarity_score =
                     IF found[r].faq # 0
                     THEN << found[r].similarity_score >> ELSE <<>>
        /\ (Gated(r) /\ \A i \in DOMAIN faqs : faqs[i].embedding = NULL) =>
              /\ found[r].faq = 0
              /\ found[r].similarity_score = 0
              /\ MissTaken(r)

\* C4 (amended): on a Miss generate is called, and when it returns the
\* envelope is generated, matched_question "N/A", answer the text generate
\* returned, similarity_score the match score rounded to four decimal places
\* when a candidate existed and none otherwise; with no eligible entry the
\* matcher returns (none, 0.0) and the request falls through to generate
\* without an error from the matcher.
C4_GeneratedEnvelope ==
    \A r \in DOMAIN pc :
        /\ (Gated(r) /\ ~Hit(r)) => (MissTaken(r) /\ ~LocalAnswered(r))
        /\ (MissTaken(r) /\ Done(r) /\ log[r][Len(log[r])].ok) =>
              /\ GeneratedAnswered(r)
              /\ response[r].status = 200
              /\ response[r].matched_question = "N/A"
              /\ response[r].answer = generated[r]
              /\ log[r][Len(log[r])].val = << response[r].answer >>
              /\ IF found[r].faq # 0
                 THEN /\ Len(response[r].similarity_score) = 1
                      /\ RoundedTo4(response[r].similarity_score[1],
                                    found[r].similarity_score)
                 ELSE response[r].similarity_score = <<>>
        /\ (Gated(r) /\ \A i \in DOMAIN faqs : faqs[i].embedding = NULL) =>
              /\ found[r].faq = 0
              /\ found[r].similarity_score = 0
              /\ MissTaken(r)

\* a generated answer over an empty corpus, without a score
C4_Witness ==
    \E r \in DOMAIN pc :
        /\ GeneratedAnswered(r)
        /\ \A i \in DOMAIN faqs : faqs[i].embedding = NULL
        /\ found[r].faq = 0
        /\ response[r].similarity_score = <<>>
        /\ threshold = 0

\* a generated answer whose candidate scored below the threshold
C4_WitnessBelow ==
    \E r \in DOMAIN pc :
        /\ GeneratedAnswered(r)
        /\ found[r].faq # 0
        /\ found[r].similarity_score < threshold
        /\ response[r].similarity_score # << found[r].similarity_score >>

AllWhitespace(text) == \A i \in DOMAIN text : text[i] \in Whitespace

\* C5: a question that is empty after trimming is rejected with the
\* validation error (status 400, not the status 500 of a pipeline failure)
\* and no classify, embed, corpus query or generate call is made.
C5_EmptyRejected ==
    \A r \in DOMAIN pc :
        (AllWhitespace(raw[r]) /\ pc[r] # "start") =>
            /\ Rejected(r)
            /\ ~Failed(r)
            /\ response[r].detail = << "Question cannot be empty" >>
            /\ log[r] = <<>>

C5_Witness ==
    \E r \in DOMAIN pc :
        /\ AllWhitespace(raw[r])
        /\ Len(raw[r]) > 1
        /\ Rejected(r)

\* positions in the log of the calls made to one collaborator
CallsAt(r, call) == { i \in DOMAIN log[r] : log[r][i].call = call }

LastCall(r, call) ==
    log[r][CHOOSE i \in CallsAt(r, call) : \A j \in CallsAt(r, call) : j <= i]

\* the retry loop around the call was left by an exception
Raised(r, call, at) ==
    /\ CallsAt(r, call) # {}
    /\ ~LastCall(r, call).ok
    /\ pc[r] # at

EmbedRaised(r) == Raised(r, "embed", "embed")

GenerateRaised(r) == Raised(r, "generate", "generate")

ClassifierOutage(r) ==
    /\ CallsAt(r, "classify") # {}
    /\ ~LastCall(r, "classify").ok
    /\ pc[r] \notin { "classify", "route" }

\* C6: when the classification call fails, the verdict is in-domain: the
\* request goes on to similarity matching, is never answered as off-topic,
\* and fails only if a later call (embed, corpus query, generate) raised.
C6_ClassifierFailOpen ==
    \A r \in DOMAIN pc :
        ClassifierOutage(r) =>
            /\ route[r] = << "it_related", TRUE >>
            /\ ~OffTopicAnswered(r)
            /\ pc[r] = "embed" \/ Calls(r, "embed") > 0
            /\ Failed(r) => ~log[r][Len(log[r])].ok
                            /\ log[r][Len(log[r])].call # "classify"

C6_Witness ==
    \E r \in DOMAIN pc :
        /\ ClassifierOutage(r)
        /\ LocalAnswered(r)

\* C7: when the embed call fails after its retries, or the generate call
\* fails, the request ends in Failed with the status-500 error and no answer
\* envelope; after an embedding failure neither the corpus query nor
\* generate is called.
C7_FailClosed ==
    \A r \in DOMAIN pc :
        /\ EmbedRaised(r) =>
              /\ Failed(r)
              /\ Calls(r, "query") = 0
              /\ Calls(r, "generate") = 0
        /\ GenerateRaised(r) => Failed(r)
        /\ Failed(r) =>
              /\ response[r].kind # "envelope"
              /\ response[r].source = ""
              /\ response[r].answer = ""
              /\ response[r].status # 200
              /\ response[r].status # 400

C7_Witness ==
    \E r \in DOMAIN pc :
        /\ EmbedRaised(r)
        /\ Failed(r)

\* C8: the embed call is invoked at most RETRY_MAX_ATTEMPTS times and never
\* again after it returned; its value is what search_similar_faq uses; the
\* loop raises only after RETRY_MAX_ATTEMPTS failed attempts, and what it
\* raises is the exception of the last attempt, unchanged.
C8_RetryAttempts ==
    \A r \in DOMAIN pc :
        /\ Calls(r, "embed") <= RETRY_MAX_ATTEMPTS
        /\ \A i, j \in CallsAt(r, "embed") : i < j => ~log[r][i].ok
        /\ (CallsAt(r, "embed") # {} /\ LastCall(r, "embed").ok) =>
              /\ query_embedding[r] = LastCall(r, "embed").val
              /\ pc[r] \in { "search", "generate", "done" }
              /\ Failed(r) => log[r][Len(log[r])].call # "embed"
        /\ (CallsAt(r, "embed") # {} /\ ~LastCall(r, "embed").ok
                /\ Calls(r, "embed") < RETRY_MAX_ATTEMPTS) =>
              /\ pc[r] = "embed"
              /\ response[r].kind = "none"
        /\ EmbedRaised(r) =>
              /\ Calls(r, "embed") = RETRY_MAX_ATTEMPTS
              /\ response[r].kind = "error"
              /\ last_exception[r] \in Errors
              /\ response[r].detail =
                     << "Error processing your question: ",
                        last_exception[r] >>

\* two failures, then a success whose value reached the matcher
C8_Witness ==
    \E r \in DOMAIN pc :
        /\ Calls(r, "embed") = 3
        /\ LastCall(r, "embed").ok
        /\ query_embedding[r] = LastCall(r, "embed").val
        /\ Calls(r, "query") = 1

\* three failures, the exception of the last one raised
C8_WitnessExhausted ==
    \E r \in DOMAIN pc :
        /\ EmbedRaised(r)
        /\ Calls(r, "embed") = 3
        /\ response[r].detail[2] = last_exception[r]

Rank(call) ==
    CASE call = "classify" -> 1
      [] call = "embed" -> 2
      [] call = "query" -> 3
      [] call = "generate" -> 4

\* C9 as stated: the classification, embedding and generation calls are each
\* attempted RETRY_MAX_ATTEMPTS times before their failure is acted on, and
\* a retry never repeats an earlier stage of the pipeline.
C9_EveryCallRetried ==
    \A r \in DOMAIN pc :
        /\ ClassifierOutage(r) => Calls(r, "classify") = RETRY_MAX_ATTEMPTS
        /\ EmbedRaised(r) => Calls(r, "embed") = RETRY_MAX_ATTEMPTS
        /\ GenerateRaised(r) => Calls(r, "generate") = RETRY_MAX_ATTEMPTS
        /\ \A i, j \in DOMAIN log[r] :
               i < j => Rank(log[r][i].call) <= Rank(log[r][j].call)

PcRank(at) ==
    CASE at = "start" -> 0
      [] at = "classify" -> 1
      [] at = "route" -> 2
      [] at = "embed" -> 3
      [] at = "search" -> 4
      [] at = "generate" -> 5
      [] at = "done" -> 6

Terminals(r) ==
    { t \in { "Rejected", "OffTopicAnswered", "LocalAnswered",
              "GeneratedAnswered", "Failed" } :
        \/ t = "Rejected" /\ Rejected(r)
        \/ t = "OffTopicAnswered" /\ OffTopicAnswered(r)
        \/ t = "LocalAnswered" /\ LocalAnswered(r)
        \/ t = "GeneratedAnswered" /\ GeneratedAnswered(r)
        \/ t = "Failed" /\ Failed(r) }

C10_Order(r) ==
    /\ \A i, j \in DOMAIN log[r] :
           i < j => Rank(log[r][i].call) <= Rank(log[r][j].call)
    /\ Calls(r, "classify") <= 1
    /\ Calls(r, "query") <= 1
    /\ (PcRank(pc[r]) >= 2 /\ ~Rejected(r)) => Calls(r, "classify") = 1
    /\ (pc[r] \in { "embed", "search", "generate" } \/ Calls(r, "embed") > 0) =>
           route[r] = << "it_related", TRUE >>
    /\ Calls(r, "query") > 0 =>
           /\ LastCall(r, "embed").ok
           /\ route[r] = << "it_related", TRUE >>
    /\ MissTaken(r) =>
           /\ Calls(r, "query") = 1
           /\ LastCall(r, "query").ok
           /\ ~Hit(r)
    /\ Done(r) =>
           /\ Cardinality(Terminals(r)) = 1
           /\ ~AllWhitespace(raw[r]) => ~Rejected(r)
    /\ ~Done(r) => response[r].kind = "none"

C10_Step(r) ==
    /\ PcRank(pc'[r]) >= PcRank(pc[r])
    /\ Len(log'[r]) >= Len(log[r])
    /\ SubSeq(log'[r], 1, Len(log[r])) = log[r]
    /\ route[r][1] # "" => route'[r] = route[r]
    /\ Done(r) => /\ response'[r] = response[r]
                  /\ log'[r] = log[r]
                  /\ pc'[r] = pc[r]

\* C10: the calls of a request are made in the order classify, embed, corpus
\* query, generate; classification is made exactly once and first, matching
\* only after an in-domain verdict, generate only after the gate missed; the
\* position never moves backwards, the verdict is never revisited, and a
\* finished request is in exactly one terminal state, which never changes.
C10_FixedOrder ==
    /\ [](\A r \in DOMAIN pc : C10_Order(r))
    /\ [][\A r \in DOMAIN pc : C10_Step(r)]_vars

\* a request that went through every stage, with retries, to a generated answer
C10_Witness ==
    \E r \in DOMAIN pc :
        /\ GeneratedAnswered(r)
        /\ Calls(r, "embed") > 1
        /\ Calls(r, "generate") > 1
        /\ found[r].faq # 0

\* find_best_match has returned to its caller
Returned(r) == pc[r] = "returned"

\* C11: the candidate find_best_match returns always has an embedding; when
\* a collection_name is given the candidate belongs to that collection, and
\* a candidate is returned whenever that collection has an entry with an
\* embedding; when none is given, a candidate is returned whenever any entry
\* of any collection has an embedding, and it may come from any collection.
C11_EligibleOnly ==
    \A r \in DOMAIN pc :
        Returned(r) =>
            /\ found[r].faq # 0 =>
                  /\ found[r].faq \in DOMAIN faqs
                  /\ faqs[found[r].faq].embedding # NULL
                  /\ collection_arg[r] # "" =>
                        faqs[found[r].faq].collection_name = collection_arg[r]
            /\ found[r].faq = 0 <=>
                  ~\E i \in DOMAIN faqs :
                       /\ faqs[i].embedding # NULL
                       /\ collection_arg[r] \in { "", faqs[i].collection_name }

\* with a collection given, the candidate comes from it although an entry of
\* another collection has an embedding and an entry of the collection has none
C11_Witness ==
    \E r \in DOMAIN pc :
        /\ Returned(r)
        /\ collection_arg[r] = "hr"
        /\ found[r].faq # 0
        /\ \E i \in DOMAIN faqs :
               /\ faqs[i].collection_name # "hr"
               /\ faqs[i].embedding # NULL

\* without a collection, a candidate from a collection other than the default
C11_WitnessAll ==
    \E r \in DOMAIN pc :
        /\ Returned(r)
        /\ collection_arg[r] = ""
        /\ found[r].faq # 0
        /\ faqs[found[r].faq].collection_name = "hr"

\* the entries find_best_match compares for request r
Eligible(r) ==
    { i \in DOMAIN faqs :
        /\ faqs[i].embedding # NULL
        /\ collection_arg[r] \in { "", faqs[i].collection_name } }

\* the similarity of entry i to the query of request r
SimOf(r, i) == Similarity(faqs[i].embedding, query_embedding[r])

\* C12: for every non-empty eligible corpus the returned entry's similarity
\* is >= the similarity of every other eligible entry, and the returned
\* score is the returned entry's own similarity to the query embedding.
C12_MaximalCandidate ==
    \A r \in DOMAIN pc :
        (Returned(r) /\ Eligible(r) # {}) =>
            /\ found[r].faq \in Eligible(r)
            /\ found[r].similarity_score = SimOf(r, found[r].faq)
            /\ \A k \in Eligible(r) \ { found[r].faq } :
                   FloatGeq(SimOf(r, found[r].faq), SimOf(r, k))

\* C13: with the same question embedding and an unchanged corpus the same
\* candidate is always returned: when several eligible entries share the
\* highest similarity, the first-inserted one (lowest id) is returned.
C13_FirstInsertedWins ==
    \A r \in DOMAIN pc :
        (Returned(r) /\ found[r].faq # 0) =>
            \A k \in Eligible(r) :
                SimOf(r, k) = found[r].similarity_score => found[r].faq <= k

\* C16: an entry whose stored embedding has zero norm is never scored and
\* never returned as the best candidate, and never displaces a valid entry.
C16_ZeroNormRejected ==
    \A r \in DOMAIN pc :
        (Returned(r) /\ found[r].faq # 0) =>
            /\ Norm(faqs[found[r].faq].embedding) # 0
            /\ found[r].similarity_score # NaN

\* the retry loop the request entered last, and its failed attempts so far
CurrentLoop(r) == IF MissTaken(r) THEN "generate" ELSE "embed"

FailedAttempts(r) ==
    Cardinality({ i \in CallsAt(r, CurrentLoop(r)) : ~log[r][i].ok })

\* C14: the wait after attempt n is min(ceiling, max(floor, multiplier *
\* 2^(n-1))) with multiplier 1, floor 2 and ceiling 10: every wait is in
\* [2, 10], waits never decrease with n, the n-th sleep of a run is the wait
\* after attempt n, and a run sleeps once after each failed attempt except
\* the last of RETRY_MAX_ATTEMPTS, so at most RETRY_MAX_ATTEMPTS - 1 times.
C14_BackoffBounds ==
    /\ \A n \in 1..MaxAttemptNumber :
          /\ wait_exponential(n) = Min(10, Max(2, 1 * (2 ^ (n - 1))))
          /\ wait_exponential(n) \in 2..10
          /\ n > 1 => wait_exponential(n - 1) <= wait_exponential(n)
    /\ \A r \in DOMAIN pc :
          /\ Len(slept[r]) <= RETRY_MAX_ATTEMPTS - 1
          /\ Len(slept[r]) =
                IF FailedAttempts(r) = RETRY_MAX_ATTEMPTS
                THEN RETRY_MAX_ATTEMPTS - 1 ELSE FailedAttempts(r)
          /\ \A n \in DOMAIN slept[r] :
                /\ slept[r][n] = Min(10, Max(2, 1 * (2 ^ (n - 1))))
                /\ slept[r][n] \in 2..10

\* a run of three failed attempts that slept twice and not a third time
C14_Witness ==
    \E r \in DOMAIN pc :
        /\ Done(r)
        /\ CurrentLoop(r) = "embed"
        /\ FailedAttempts(r) = 3
        /\ slept[r] = << 2, 2 >>

\* the classification call of r returned and its completion was parsed
Parsed(r) ==
    /\ route[r][1] # ""
    /\ ~classify_failed[r]
    /\ completion[r] # <<>>

\* C15 as stated: the verdict is in-domain iff the upper-cased completion
\* contains IT_RELATED; every other completion yields off-topic.
C15_Original ==
    \A r \in DOMAIN pc :
        Parsed(r) =>
            (route[r][2] <=> Contains(Upper(completion[r][1]), IT_RELATED))

\* C15: when the classification call returns, the verdict is in-domain iff
\* the upper-cased completion contains IT_RELATED or contains YES; every
\* other completion, the empty one included, yields off-topic.
C15_MarkerTokens ==
    \A r \in DOMAIN pc :
        Parsed(r) =>
            /\ route[r][2] <=>
                  \/ Contains(Upper(completion[r][1]), IT_RELATED)
                  \/ Contains(Upper(completion[r][1]), YES)
            /\ route[r][1] = IF route[r][2] THEN "it_related" ELSE "compliance"
            /\ ~route[r][2] => OffTopicAnswered(r)

\* a completion without IT_RELATED that was parsed as in-domain
C15_Witness ==
    \E r \in DOMAIN pc :
        /\ Parsed(r)
        /\ route[r][2]
        /\ ~Contains(Upper(completion[r][1]), IT_RELATED)
        /\ pc[r] = "embed"

\* a lower-case marker parsed as in-domain, an empty completion as off-topic
C15_WitnessLower ==
    \E r \in DOMAIN pc :
        /\ Parsed(r)
        /\ route[r][2]
        /\ ~Contains(completion[r][1], IT_RELATED)
        /\ Contains(Upper(completion[r][1]), IT_RELATED)

C15_WitnessEmpty ==
    \E r \in DOMAIN pc :
        /\ route[r][1] # ""
        /\ ~classify_failed[r]
        /\ completion[r] = << << >> >>
        /\ OffTopicAnswered(r)

\* C17: no step of ask_question changes the faqs table: on every path the
\* set of stored entries and each entry's question, answer, embedding and
\* collection stay as they were, and no stored embedding is ever the query
\* embedding of a request.
C17_CorpusReadOnly ==
    /\ [][faqs' = faqs]_vars
    /\ [](\A r \in DOMAIN pc : \A i \in DOMAIN faqs :
             faqs[i].embedding # NULL =>
                 faqs[i].embedding # query_embedding[r])

\* a request answered from the corpus: the matched entry still holds its own
\* embedding, not the query's
C17_Witness ==
    \E r \in DOMAIN pc :
        /\ LocalAnswered(r)
        /\ Calls(r, "query") = 1
        /\ query_embedding[r] \in QueryVecs
        /\ faqs[found[r].faq].embedding \in StoredVecs

\* the other terminal paths were taken with the corpus in place
C17_WitnessPaths ==
    \E r \in DOMAIN pc :
        /\ faqs # <<>>
        /\ GeneratedAnswered(r)
        /\ found[r].faq # 0

\* everything one execution of ask_question holds
Local(r) ==
    << raw[r], pc[r], user_question[r], completion[r], classify_failed[r],
       route[r], attempt[r], last_exception[r], slept[r], query_embedding[r],
       found[r], generated[r], response[r], log[r], collection_arg[r] >>

\* what request r answers when it runs alone with the outcomes its own calls had
SoloResponse(r) ==
    IF Strip(raw[r]) = <<>> THEN EmptyQuestionError
    ELSE IF route[r] = << "compliance", FALSE >> THEN ComplianceResponse
    ELSE IF Calls(r, "query") = 0 \/ ~LastCall(r, "query").ok
         THEN ProcessingError(last_exception[r])
    ELSE IF ReturnsLocal(found[r]) THEN LocalResponse(faqs, found[r])
    ELSE IF LastCall(r, "generate").ok
         THEN OpenAIResponse(found[r], generated[r])
    ELSE ProcessingError(last_exception[r])

\* C18: in every interleaving of several executions over one corpus and
\* configuration, each step changes the state of one execution only and
\* never the corpus or the configuration, an execution's match is the one
\* its own query embedding has, and its envelope or failure is the one it
\* gives when run alone with the same outcomes of its own calls.
C18_Independent ==
    /\ [](\A r \in DOMAIN pc :
            /\ (Calls(r, "query") > 0 /\ LastCall(r, "query").ok) =>
                  found[r] \in
                     { find_best_match(res, threshold) :
                          res \in search_similar_faq(faqs, query_embedding[r], "") }
            /\ Done(r) => response[r] = SoloResponse(r))
    /\ [][/\ << faqs, threshold >>' = << faqs, threshold >>
          /\ \A r1, r2 \in DOMAIN pc :
                r1 # r2 => (Local(r1)' = Local(r1) \/ Local(r2)' = Local(r2))]_vars

\* two executions in flight at once, each inside a different retry loop,
\* with different query embeddings
C18_Witness ==
    \E r1, r2 \in DOMAIN pc :
        /\ r1 # r2
        /\ pc[r1] = "generate" /\ Calls(r1, "generate") = 1
        /\ pc[r2] = "embed" /\ Calls(r2, "embed") = 2

\* two finished executions answered from one entry, each with the score of
\* its own query embedding
C18_WitnessDone ==
    \E r1, r2 \in DOMAIN pc :
        /\ LocalAnswered(r1)
        /\ LocalAnswered(r2)
        /\ found[r1].faq = found[r2].faq
        /\ response[r1].similarity_score # response[r2].similarity_score

Unsupported == embedding_model \notin DOMAIN EMBEDDING_DIMENSIONS

\* the persisted column declares a dimension other than the configured one
Mismatch ==
    /\ ~Unsupported
    /\ atttypmod > 0
    /\ atttypmod # EMBEDDING_DIMENSIONS[embedding_model]

\* C19: if the configured embedding model is unsupported, or the configured
\* dimension differs from the dimension of the persisted embedding column,
\* the service never starts serving and no request is ever handled; the
\* decision is taken at startup and no request changes it.
C19_StartupFatal ==
    /\ []((Unsupported \/ Mismatch) =>
             /\ app # "serving"
             /\ \A r \in DOMAIN pc : pc[r] = "start")
    /\ [][app # "starting" => app' = app]_vars

\* what the code does guarantee: an unsupported model, or a mismatch seen by
\* a schema query that returned, is fatal
FatalWhenSeen ==
    /\ Unsupported => app # "serving"
    /\ app = "failed" => (Unsupported \/ Mismatch)
    /\ app # "serving" => \A r \in DOMAIN pc : pc[r] = "start"

Range(f) == { f[i] : i \in DOMAIN f }

\* the selection of update_embeddings has been made
Selected == upd.pc \notin { "none", "start", "raised", "empty" }

C20_WitnessForce ==
    /\ upd.pc = "committed"
    /\ upd.force
    /\ Len(upd.faqs_to_update) = MaxCorpus
    /\ \A j \in DOMAIN faqs : faqs[j].embedding \in QueryVecs

\* C21 as stated: whenever source = local the reported score is >= the
\* threshold, and whenever source = generated with a score present the
\* reported score is < the threshold.
C21_Original ==
    \A r \in DOMAIN pc :
        /\ LocalAnswered(r) =>
              FloatGeq(response[r].similarity_score[1], threshold)
        /\ (GeneratedAnswered(r) /\ response[r].similarity_score # <<>>) =>
              /\ response[r].similarity_score[1] # NaN
              /\ response[r].similarity_score[1] < threshold

\* C21: the gate is decided on the unrounded score and the reported score
\* is that score rounded to four decimals: whenever source = local the
\* compared score is >= the threshold and the reported score is less than
\* 0.00005 below it at worst; whenever source = generated with a score
\* present the compared score is below the threshold or not a number, and
\* the reported score is at most 0.00005 above the compared one.
C21_ScoreConsistent ==
    \A r \in DOMAIN pc :
        /\ LocalAnswered(r) =>
              /\ FloatGeq(found[r].similarity_score, threshold)
              /\ RoundedTo4(response[r].similarity_score[1],
                            found[r].similarity_score)
              /\ 2 * (threshold - response[r].similarity_score[1]) <= 10
        /\ (GeneratedAnswered(r) /\ response[r].similarity_score # <<>>) =>
              /\ ~FloatGeq(found[r].similarity_score, threshold)
              /\ RoundedTo4(response[r].similarity_score[1],
                            found[r].similarity_score)
              /\ found[r].similarity_score # NaN =>
                    /\ found[r].similarity_score < threshold
                    /\ 2 * (response[r].similarity_score[1] - threshold) < 10

\* a generated answer whose compared score is below the threshold and whose
\* reported score is not
C21_Witness ==
    \E r \in DOMAIN pc :
        /\ GeneratedAnswered(r)
        /\ found[r].similarity_score < threshold
        /\ response[r].similarity_score # <<>>
        /\ response[r].similarity_score[1] >= threshold

\* a local answer whose reported score is below the threshold
C21_WitnessLocal ==
    \E r \in DOMAIN pc :
        /\ LocalAnswered(r)
        /\ found[r].similarity_score >= threshold
        /\ response[r].similarity_score[1] < threshold

\* the rows the loader run inserted, once it has committed
Inserted ==
    IF load.pc = "committed"
    THEN { i \in DOMAIN faqs : i > Len(faqs) - load.n_items /\ load.use_async }
         \cup { i \in DOMAIN faqs :
                  ~load.use_async /\ i > (IF load.script = "seed" THEN 0
                                          ELSE Len(load.before)) }
    ELSE {}

\* the loader has committed and the worker has run every queued task
Drained == load.pc = "committed" /\ queue = <<>> /\ ~worker.busy

\* no call of a task failed: neither the embed call nor the database
TasksRanClean ==
    \A k \in DOMAIN results : results[k].message \notin { "embed", "database" }

\* C22: for every row created without embedding by a loader in async mode,
\* in every interleaving of the loader's commit with the worker, once the
\* loader has committed and the worker has run every queued task with the
\* embed calls succeeding, the row has an embedding.
C22_AsyncPopulated ==
    (Drained /\ load.use_async /\ TasksRanClean) =>
        \A i \in Inserted : faqs[i].embedding # NULL

\* the step is the return of a task
TaskReturns == Len(results') = Len(results) + 1

\* C23: every execution of generate_embedding_async ends by returning a
\* result whose status is success or error; it returns success only when the
\* row with the task's id exists and holds the new embedding after the step,
\* with nothing else changed; when it returns error (embed call failed, row
\* not found, database failed) the faqs table is as it was; and no step of
\* the worker other than a successful return changes the table.
C23_TaskAllOrNothing ==
    /\ [](\A k \in DOMAIN results : results[k].status \in { "success", "error" })
    /\ [][/\ TaskReturns =>
                LET res == results'[Len(results')]
                IN  /\ SubSeq(results', 1, Len(results)) = results
                    /\ res.status = "success" =>
                          /\ worker.busy
                          /\ res.faq_id = worker.question_id
                          /\ res.faq_id \in DOMAIN faqs
                          /\ faqs' = [ faqs EXCEPT ![res.faq_id].embedding =
                                                       worker.embedding ]
                          /\ faqs'[res.faq_id].embedding # NULL
                    /\ res.status = "error" => faqs' = faqs
                    /\ (worker.busy /\ worker.question_id \notin DOMAIN faqs) =>
                          res.status = "error"
                    /\ ~worker.busy => res.status = "error"
          /\ (worker' # worker /\ ~TaskReturns) => faqs' = faqs]_vars

\* one task failed in its embed call and left its committed row without an
\* embedding, another returned success and its row has one
C23_Witness ==
    /\ \E k \in DOMAIN results :
          /\ results[k].status = "error"
          /\ results[k].message = "embed"
          /\ results[k].faq_id \in DOMAIN faqs
          /\ faqs[results[k].faq_id].embedding = NULL
    /\ \E k \in DOMAIN results :
          /\ results[k].status = "success"
          /\ faqs[results[k].faq_id].embedding \in QueryVecs

\* a task whose row was not found
C23_WitnessNotFound ==
    \E k \in DOMAIN results :
        /\ results[k].message = "FAQ not found"
        /\ results[k].faq_id \notin DOMAIN faqs

\* the loader runs in synchronous mode
SyncMode == load.script # "none" /\ ~load.use_async

\* C24: in synchronous mode no row is added or stored without an embedding:
\* every row the loader holds for commit and every row it inserted has one;
\* an item whose embedding generation fails adds no row and the loop goes on
\* with the next item; the commit stores exactly the rows added, in order.
C24_SyncRowsEmbedded ==
    /\ [](SyncMode =>
            /\ \A k \in DOMAIN load.pending : load.pending[k].embedding # NULL
            /\ \A i \in Inserted : faqs[i].embedding # NULL
            /\ queue = <<>> /\ results = <<>>)
    /\ [][SyncMode =>
            /\ (load.pc = "sync" /\ load'.idx = load.idx + 1) =>
                  /\ load'.pc = "sync"
                  /\ \/ load'.pending = load.pending
                     \/ /\ Len(load'.pending) = Len(load.pending) + 1
                        /\ SubSeq(load'.pending, 1, Len(load.pending)) =
                               load.pending
            /\ (load.pc = "sync" /\ load'.pc = "committed") =>
                  /\ load.idx = load.n_items + 1
                  /\ faqs' = faqs \o load.pending]_vars

\* a committed synchronous run in which one item was skipped and a later
\* one was inserted with its embedding
C24_Witness ==
    /\ SyncMode
    /\ load.pc = "committed"
    /\ load.n_items = 2
    /\ Cardinality(Inserted) = 1
    /\ \A i \in Inserted : faqs[i].embedding \in QueryVecs

\* C25: when the operator declines the reseed prompt, or seed_faqs leaves
\* through its exception handler, the faqs table holds the rows it held
\* before the call.
C25_SeedLeavesCorpus ==
    (load.script = "seed" /\ load.pc \in { "cancelled", "raised" }) =>
        faqs = load.before

\* the request passed validation: its question is not empty after trimming
Accepted(r) == pc[r] # "start" /\ ~Rejected(r)

\* the request is in exactly one of the four terminal states
Terminated(r) ==
    /\ Done(r)
    /\ Cardinality(Terminals(r)) = 1
    /\ Terminals(r) \subseteq { "OffTopicAnswered", "LocalAnswered",
                                "GeneratedAnswered", "Failed" }

\* C26: provided each remote call returns or raises, every accepted request
\* eventually reaches exactly one of OffTopicAnswered, LocalAnswered,
\* GeneratedAnswered and Failed and stays there, and a request never makes
\* more than RETRY_MAX_ATTEMPTS (3) embedding calls.
C26_Terminates ==
    /\ \A r \in Requests : Accepted(r) ~> [](Terminated(r))
    /\ [](\A r \in Requests :
             /\ Calls(r, "embed") <= 3
             /\ Calls(r, "embed") <= RETRY_MAX_ATTEMPTS
             /\ (Accepted(r) /\ Done(r)) => Terminated(r))

\* a request that used every attempt of both retry loops and was answered
C26_Witness ==
    \E r \in DOMAIN pc :
        /\ GeneratedAnswered(r)
        /\ Terminated(r)
        /\ Calls(r, "embed") = RETRY_MAX_ATTEMPTS
        /\ Calls(r, "generate") = RETRY_MAX_ATTEMPTS

====
